---- MODULE Spec2Model ----
(***************************************************************************)
(* Model of src/headset_interface.py: the HyperXCloudFlightS monitor.      *)
(*                                                                         *)
(* Threads: thread 0 is the main thread (it runs __init__, which calls     *)
(* bootstrap, and then run()); threads 1..MaxTimers are threading.Timer    *)
(* threads, each of which runs bootstrap once when its delay has elapsed.  *)
(* Program positions are named after the source line about to execute.     *)
(* The HID device, its frames and its failures are the environment.        *)
(*                                                                         *)
(* The display client of src/show_headset_battery.py is a process of its   *)
(* own that only polls the endpoint; ClientSpec is its poll loop, with the *)
(* monitor reduced to the value it serves.                                 *)
(***************************************************************************)
EXTENDS Integers, Sequences, FiniteSets, TLC

VARIABLES
    attached,               \* environment: the headset dongle is plugged in
    port,                   \* environment: the USB port (device path) it is plugged into
    devices,                \* self.devices: the cached hid.enumerate() result
    bootstrap_device,       \* self.bootstrap_device: None or a hid.device object
    device_ready,           \* self.device_ready (threading.Event)
    battery_status,         \* self.battery_status
    app_battery_status,     \* app.battery_status (the attribute the endpoint serves)
    update_age,             \* time.time() - self.last_battery_update_at, or None
    pc,                     \* position of every thread
    ret,                    \* where thread 0 continues when its bootstrap call returns
    cands,                  \* per thread: what is left of `for device in self.devices`
    timer_left,             \* per timer thread: seconds until its threading.Timer fires
    data,                   \* run(): the local `data` of the current loop iteration
    emitted,                \* 'battery_status' events emitted by the current process_data call
    errors,                 \* 'error' events emitted by the bootstrap call a thread is in
    leaked,                 \* hid handles that were opened and dropped without close()
    last_frame_pct,         \* percentage of the previously processed battery frame
    read_failed,            \* a read raised OSError and run() has not read again since
    wrote,                  \* per thread: the bootstrap call it is in has written the wake command
    client_pc,              \* show_headset_battery.py: position of the update thread
    last_charge_level,      \* update(): last_charge_level
    charge_level,           \* update(): charge_level
    icon_visible,           \* icon.visible
    icon_title,             \* the level icon.icon and icon.title show
    beeped                  \* winsound.MessageBeep was called in this iteration

vars == << attached, port, devices, bootstrap_device, device_ready,
           battery_status, app_battery_status, update_age,
           pc, ret, cands, timer_left, data, emitted, errors, leaked, last_frame_pct, read_failed, wrote,
           client_pc, last_charge_level, charge_level, icon_visible, icon_title, beeped >>

\* the state of the display client
clientVars == << client_pc, last_charge_level, charge_level, icon_visible, icon_title, beeped >>

-----------------------------------------------------------------------------
(* Program constants *)

USAGE_PAGE == 65299
USAGE == 1
position_info == 3
position_battery == 7
type_battery_status == 2
update_delay == 300
invalidate_after == 1800
FRAME_LEN == 20
WAKE_BYTE == 33
BATTERY_VERY_LOW_AT == 15
BATTERY_CHARGED_AT == 85

(* Bounds of the model *)

MaxTimers == 2      \* threading.Timer objects that can exist at once
MaxRunning == 1     \* Timer threads that can be inside bootstrap at once
MaxPorts == 2       \* USB ports the dongle can be plugged into
MaxLeaked == 1      \* the count of leaked handles saturates here

\* time passes in steps of one polling delay
TickLen == update_delay

\* update_age is kept exactly up to here: the first stale tick finds
\* invalidate_after + TickLen, a later one finds more
AgeCap == invalidate_after + 2 * TickLen

\* Python's None, where the other values are integers
None == -1
\* `app` has no attribute battery_status yet (hasattr is false)
NoAttr == -2
\* the endpoint's answer 'unknown'
Unknown == -3
\* no answer: requests.get raises ConnectionError
Unreachable == -4

RunThread == 0
TimerThreads == 1..MaxTimers
Threads == {RunThread} \cup TimerThreads
Ports == 1..MaxPorts

\* byte values frames are built from: the battery-status marker and another value
Bytes == {type_battery_status, 45}

Min(a, b) == IF a < b THEN a ELSE b

-----------------------------------------------------------------------------
(* The environment: the HID library and the device *)

\* hid.enumerate(VENDOR_ID, PRODUCT_ID): the product exposes two logical interfaces
Enumerate ==
    IF attached
    THEN << [usage_page |-> 12, usage |-> 1, path |-> << port, 0 >>],
            [usage_page |-> USAGE_PAGE, usage |-> 1, path |-> << port, 1 >>] >>
    ELSE << >>

\* self.bootstrap_device = None
NoDevice == [obj |-> FALSE, open |-> FALSE, live |-> FALSE, woken |-> FALSE]

\* hid.device(): a handle object that is not open yet
NewDevice == [obj |-> TRUE, open |-> FALSE, live |-> FALSE, woken |-> FALSE]

\* the handle after a successful open_path; `live` ends when the device goes away,
\* `woken` records that the wake command was written to this handle
OpenDevice == [obj |-> TRUE, open |-> TRUE, live |-> TRUE, woken |-> FALSE]

\* open_path(path) succeeds when the device is present at that path
CanOpen(path) == attached /\ path[1] = port

\* the wake command written by bootstrap
WakeBuffer == [i \in 1..FRAME_LEN |-> IF i = 1 THEN WAKE_BYTE ELSE 0]

\* a report of `len` bytes: byte 3 is t, byte 7 is p, bytes 2 and 6 are n, the rest 0
Frame(len, n, t, p) ==
    [i \in 1..len |-> IF i = position_info + 1 THEN t
                      ELSE IF i = position_battery + 1 THEN p
                      ELSE IF i \in {position_info, position_battery} THEN n
                      ELSE 0]

FullFrames == { Frame(FRAME_LEN, n, t, p) : n \in Bytes, t \in Bytes, p \in Bytes }

\* truncated reports: too short for byte 3, or long enough for byte 3 but not byte 7
TruncatedFrames ==
    { Frame(position_info, 0, 0, 0) }
      \cup { Frame(position_battery - 1, 0, t, 0) : t \in Bytes }

Frames == FullFrames \cup TruncatedFrames

\* the number of handles that were opened and not closed (the program never calls close)
OpenHandles ==
    leaked + (IF bootstrap_device.open THEN 1 ELSE 0)

\* what is lost when self.bootstrap_device is overwritten: an open handle stays open
LeakedAfterDrop ==
    IF bootstrap_device.open
    THEN Min(leaked + 1, MaxLeaked) ELSE leaked

-----------------------------------------------------------------------------
(* battery_status(): the /battery_status endpoint, the spec's read() *)

\* mutant: the hasattr test of line 42 left out
ReadStatusNoHasattr ==
    IF app_battery_status = None
    THEN Unknown
    ELSE app_battery_status

ReadStatus ==
    IF app_battery_status = NoAttr \/ app_battery_status = None
    THEN Unknown
    ELSE app_battery_status

-----------------------------------------------------------------------------
(* process_data: decoding *)

\* mutant: the type marker read one byte early
IsBatteryFrameOneEarly(f) == f[position_info] = type_battery_status

\* mutant: the type marker not compared at all
IsBatteryFrameAlways(f) == TRUE

\* data[CommandMeaning.position_info.value] == CommandMeaning.type_battery_status.value
IsBatteryFrame(f) == f[position_info + 1] = type_battery_status

\* data[CommandMeaning.position_battery.value]
BatteryOf(f) == f[position_battery + 1]

\* indexing a Python list raises IndexError when the offset is not below its length
IndexError(f) ==
    \/ Len(f) <= position_info
    \/ IsBatteryFrame(f) /\ Len(f) <= position_battery

-----------------------------------------------------------------------------
(* Thread positions *)

BootstrapLines ==
    {"L105", "L107", "L108", "L109", "L111", "L115", "L119", "L121",
     "L125", "L129", "L133", "L135", "L141", "L141raise"}

InBootstrap(t) == pc[t] \in BootstrapLines

IdleTimers == { s \in TimerThreads : pc[s] = "idle" }

ArmedTimers == { s \in TimerThreads : pc[s] = "armed" }

RunningTimers == { s \in TimerThreads : pc[s] \in BootstrapLines }

\* the Timer thread a new threading.Timer started by thread t occupies
TimerSlot(t) ==
    IF t \in TimerThreads THEN t
    ELSE CHOOSE s \in IdleTimers : \A r \in IdleTimers : s <= r

Goto(t, l) == pc' = [pc EXCEPT ![t] = l]

\* the candidates from the first one that passes the usage filter of line 116
Matching(ds) ==
    LET ok == { i \in 1..Len(ds) :
                  ds[i].usage_page = USAGE_PAGE /\ ds[i].usage = USAGE }
    IN  IF ok = {} THEN << >>
        ELSE LET first == CHOOSE i \in ok : \A j \in ok : i <= j
             IN  SubSeq(ds, first, Len(ds))

-----------------------------------------------------------------------------
(* __init__ *)

Init ==
    /\ attached \in BOOLEAN
    /\ port = 1
    /\ devices = Enumerate
    /\ bootstrap_device = NoDevice
    /\ device_ready = FALSE
    /\ battery_status = None
    /\ app_battery_status = NoAttr
    /\ update_age = None
    /\ pc = [t \in Threads |-> IF t = RunThread THEN "L105" ELSE "idle"]
    /\ ret = "L147"
    /\ cands = [t \in Threads |-> << >>]
    /\ timer_left = [t \in TimerThreads |-> 0]
    /\ data = << >>
    /\ emitted = << >>
    /\ errors = [t \in Threads |-> FALSE]
    /\ leaked = 0
    /\ last_frame_pct = None
    /\ read_failed = FALSE
    /\ wrote = [t \in Threads |-> FALSE]
    /\ client_pc = "L106"
    /\ last_charge_level = -1
    /\ charge_level = -1
    /\ icon_visible = FALSE
    /\ icon_title = -1
    /\ beeped = FALSE

-----------------------------------------------------------------------------
(* bootstrap, statement by statement, run by thread t *)

\* line 105: the staleness condition
Stale ==
    /\ update_age # None
    /\ update_age > invalidate_after

\* a threading.Timer started at line 143 fires and calls bootstrap
TimerFires(t) ==
    /\ t \in TimerThreads
    /\ pc[t] = "armed"
    /\ timer_left[t] = 0
    /\ Cardinality(RunningTimers) < MaxRunning
    \* timers due at the same moment are alike: the lowest-numbered one goes first
    /\ \A s \in ArmedTimers : timer_left[s] = 0 => t <= s
    /\ Goto(t, "L105")
    /\ errors' = [errors EXCEPT ![t] = FALSE]
    /\ UNCHANGED << clientVars, attached, port, devices, bootstrap_device, device_ready,
                    battery_status, app_battery_status, update_age,
                    ret, cands, timer_left, data, emitted, leaked, last_frame_pct, read_failed, wrote >>

CheckStale(t) ==
    /\ pc[t] = "L105"
    /\ Goto(t, IF Stale THEN "L107" ELSE "L111")
    /\ UNCHANGED << clientVars, attached, port, devices, bootstrap_device, device_ready,
                    battery_status, app_battery_status, update_age,
                    ret, cands, timer_left, data, emitted, errors, leaked, last_frame_pct, read_failed, wrote >>

\* mutant: line 107 clearing self.battery_status instead of app.battery_status
InvalidateOwnStatus(t) ==
    /\ pc[t] = "L107"
    /\ battery_status' = None
    /\ Goto(t, "L108")
    /\ UNCHANGED << clientVars, attached, port, devices, bootstrap_device, device_ready,
                    app_battery_status, update_age,
                    ret, cands, timer_left, data, emitted, errors, leaked, last_frame_pct, read_failed, wrote >>

\* line 107: self.app.battery_status = None
InvalidateStatus(t) ==
    /\ pc[t] = "L107"
    /\ app_battery_status' = None
    /\ Goto(t, "L108")
    /\ UNCHANGED << clientVars, attached, port, devices, bootstrap_device, device_ready,
                    battery_status, update_age,
                    ret, cands, timer_left, data, emitted, errors, leaked, last_frame_pct, read_failed, wrote >>

\* mutant: the invalidation forgetting the timestamp as well
InvalidateReadyAndTimestamp(t) ==
    /\ pc[t] = "L108"
    /\ device_ready' = FALSE
    /\ update_age' = None
    /\ Goto(t, "L109")
    /\ UNCHANGED << clientVars, attached, port, devices, bootstrap_device,
                    battery_status, app_battery_status,
                    ret, cands, timer_left, data, emitted, errors, leaked, last_frame_pct, read_failed, wrote >>

\* line 108: self.device_ready.clear()
InvalidateReady(t) ==
    /\ pc[t] = "L108"
    /\ device_ready' = FALSE
    /\ Goto(t, "L109")
    /\ UNCHANGED << clientVars, attached, port, devices, bootstrap_device,
                    battery_status, app_battery_status, update_age,
                    ret, cands, timer_left, data, emitted, errors, leaked, last_frame_pct, read_failed, wrote >>

\* line 109: self.bootstrap_device = None
InvalidateDevice(t) ==
    /\ pc[t] = "L109"
    /\ bootstrap_device' = NoDevice
    /\ leaked' = LeakedAfterDrop
    /\ Goto(t, "L111")
    /\ UNCHANGED << clientVars, attached, port, devices, device_ready,
                    battery_status, app_battery_status, update_age,
                    ret, cands, timer_left, data, emitted, errors, last_frame_pct, read_failed, wrote >>

\* lines 111-115: enumerate only when the cached list is empty, then start the loop
FindDevices(t) ==
    /\ pc[t] = "L111"
    /\ IF bootstrap_device.obj
       THEN /\ Goto(t, "L125")
            /\ UNCHANGED << devices, cands >>
       ELSE /\ devices' = (IF devices = << >> THEN Enumerate ELSE devices)
            /\ cands' = [cands EXCEPT ![t] = devices']
            /\ Goto(t, "L115")
    /\ UNCHANGED << clientVars, attached, port, bootstrap_device, device_ready,
                    battery_status, app_battery_status, update_age,
                    ret, timer_left, data, emitted, errors, leaked, last_frame_pct, read_failed, wrote >>

\* lines 115-117: the next candidate that passes the filter gets a new hid.device()
NextCandidate(t) ==
    /\ pc[t] = "L115"
    /\ cands' = [cands EXCEPT ![t] = Matching(cands[t])]
    /\ IF Matching(cands[t]) = << >>
       THEN /\ Goto(t, "L125")
            /\ UNCHANGED << bootstrap_device, leaked >>
       ELSE /\ bootstrap_device' = NewDevice
            /\ leaked' = LeakedAfterDrop
            /\ Goto(t, "L119")
    /\ UNCHANGED << clientVars, attached, port, devices, device_ready,
                    battery_status, app_battery_status, update_age,
                    ret, timer_left, data, emitted, errors, last_frame_pct, read_failed, wrote >>

\* line 119: self.bootstrap_device.open_path(device['path']) succeeds; break
OpenPathOk(t) ==
    /\ pc[t] = "L119"
    /\ bootstrap_device.obj /\ ~bootstrap_device.open
    /\ CanOpen(Head(cands[t]).path)
    /\ bootstrap_device' = OpenDevice
    /\ cands' = [cands EXCEPT ![t] = << >>]
    /\ Goto(t, "L125")
    /\ UNCHANGED << clientVars, attached, port, devices, device_ready,
                    battery_status, app_battery_status, update_age,
                    ret, timer_left, data, emitted, errors, leaked, last_frame_pct, read_failed, wrote >>

\* line 119 raises OSError: the path cannot be opened, or the handle another
\* thread put in the field is open already
OpenPathOSError(t) ==
    /\ pc[t] = "L119"
    /\ bootstrap_device.obj
    /\ bootstrap_device.open \/ ~CanOpen(Head(cands[t]).path)
    /\ Goto(t, "L121")
    /\ UNCHANGED << clientVars, attached, port, devices, bootstrap_device, device_ready,
                    battery_status, app_battery_status, update_age,
                    ret, cands, timer_left, data, emitted, errors, leaked, last_frame_pct, read_failed, wrote >>

\* line 119 raises something `except OSError` does not catch: the field is None
\* (AttributeError), or the handle in it is open already; only `finally` runs
OpenPathRaises(t) ==
    /\ pc[t] = "L119"
    /\ ~bootstrap_device.obj \/ bootstrap_device.open
    /\ cands' = [cands EXCEPT ![t] = << >>]
    /\ Goto(t, "L141raise")
    /\ UNCHANGED << clientVars, attached, port, devices, bootstrap_device, device_ready,
                    battery_status, app_battery_status, update_age,
                    ret, timer_left, data, emitted, errors, leaked, last_frame_pct, read_failed, wrote >>

\* lines 121-122: self.bootstrap_device = None; continue
OpenFailed(t) ==
    /\ pc[t] = "L121"
    /\ bootstrap_device' = NoDevice
    /\ leaked' = LeakedAfterDrop
    /\ cands' = [cands EXCEPT ![t] = Tail(cands[t])]
    /\ Goto(t, "L115")
    /\ UNCHANGED << clientVars, attached, port, devices, device_ready,
                    battery_status, app_battery_status, update_age,
                    ret, timer_left, data, emitted, errors, last_frame_pct, read_failed, wrote >>

\* lines 125-127: no device, return
CheckFound(t) ==
    /\ pc[t] = "L125"
    /\ Goto(t, IF bootstrap_device.obj THEN "L129" ELSE "L141")
    /\ UNCHANGED << clientVars, attached, port, devices, bootstrap_device, device_ready,
                    battery_status, app_battery_status, update_age,
                    ret, cands, timer_left, data, emitted, errors, leaked, last_frame_pct, read_failed, wrote >>

\* mutant: lines 129-130 left out, every tick with a handle writes the wake command
CheckReadyAlwaysWakes(t) ==
    /\ pc[t] = "L129"
    /\ Goto(t, "L133")
    /\ UNCHANGED << clientVars, attached, port, devices, bootstrap_device, device_ready,
                    battery_status, app_battery_status, update_age,
                    ret, cands, timer_left, data, emitted, errors, leaked, last_frame_pct, read_failed, wrote >>

\* lines 129-130: already woken, return
CheckReady(t) ==
    /\ pc[t] = "L129"
    /\ Goto(t, IF device_ready THEN "L141" ELSE "L133")
    /\ UNCHANGED << clientVars, attached, port, devices, bootstrap_device, device_ready,
                    battery_status, app_battery_status, update_age,
                    ret, cands, timer_left, data, emitted, errors, leaked, last_frame_pct, read_failed, wrote >>

\* lines 132-134: the wake command is written
WriteWakeOk(t) ==
    /\ pc[t] = "L133"
    /\ bootstrap_device.open /\ bootstrap_device.live
    /\ bootstrap_device' = [bootstrap_device EXCEPT !.woken = TRUE]
    /\ wrote' = [wrote EXCEPT ![t] = TRUE]
    /\ Goto(t, "L135")
    /\ UNCHANGED << clientVars, attached, port, devices, device_ready,
                    battery_status, app_battery_status, update_age,
                    ret, cands, timer_left, data, emitted, errors, leaked, last_frame_pct, read_failed >>

\* lines 136-137: the write raises OSError (device gone, system suspended)
WriteWakeOSError(t) ==
    /\ pc[t] = "L133"
    /\ bootstrap_device.open /\ ~bootstrap_device.live
    /\ Goto(t, "L141")
    /\ UNCHANGED << clientVars, attached, port, devices, bootstrap_device, device_ready,
                    battery_status, app_battery_status, update_age,
                    ret, cands, timer_left, data, emitted, errors, leaked, last_frame_pct, read_failed, wrote >>

\* lines 138-139: any other exception (the field is None or not open by now, or
\* the library fails otherwise on a dead handle) is emitted as an 'error' event
WriteWakeError(t) ==
    /\ pc[t] = "L133"
    /\ ~(bootstrap_device.open /\ bootstrap_device.live)
    /\ errors' = [errors EXCEPT ![t] = TRUE]
    /\ Goto(t, "L141")
    /\ UNCHANGED << clientVars, attached, port, devices, bootstrap_device, device_ready,
                    battery_status, app_battery_status, update_age,
                    ret, cands, timer_left, data, emitted, leaked, last_frame_pct, read_failed, wrote >>

\* line 135: self.device_ready.set()
SetReady(t) ==
    /\ pc[t] = "L135"
    /\ device_ready' = TRUE
    /\ Goto(t, "L141")
    /\ UNCHANGED << clientVars, attached, port, devices, bootstrap_device,
                    battery_status, app_battery_status, update_age,
                    ret, cands, timer_left, data, emitted, errors, leaked, last_frame_pct, read_failed, wrote >>

\* where thread t is after its bootstrap call: a Timer thread ends (its slot holds
\* the new timer); thread 0 returns to its caller, or the exception leaves run()
AfterBootstrap(t) ==
    IF t \in TimerThreads THEN "armed"
    ELSE IF pc[t] = "L141raise" THEN "raised"
    ELSE ret

\* mutant: the timer started at the end of the try body, not in a finally clause
RearmUnlessRaised(t) ==
    /\ pc[t] \in {"L141", "L141raise"}
    /\ IF pc[t] = "L141"
       THEN /\ pc' = [pc EXCEPT ![TimerSlot(t)] = "armed", ![t] = AfterBootstrap(t)]
            /\ timer_left' = [timer_left EXCEPT ![TimerSlot(t)] = update_delay]
       ELSE /\ pc' = [pc EXCEPT ![t] = IF t \in TimerThreads THEN "idle" ELSE "raised"]
            /\ UNCHANGED timer_left
    /\ wrote' = [wrote EXCEPT ![t] = FALSE]
    /\ UNCHANGED << clientVars, attached, port, devices, bootstrap_device, device_ready,
                    battery_status, app_battery_status, update_age,
                    ret, cands, data, emitted, errors, leaked, last_frame_pct, read_failed >>

\* lines 140-143, the finally clause: start a new threading.Timer
Rearm(t) ==
    /\ pc[t] \in {"L141", "L141raise"}
    /\ pc' = [pc EXCEPT ![TimerSlot(t)] = "armed", ![t] = AfterBootstrap(t)]
    /\ timer_left' = [timer_left EXCEPT ![TimerSlot(t)] = update_delay]
    /\ wrote' = [wrote EXCEPT ![t] = FALSE]
    /\ UNCHANGED << clientVars, attached, port, devices, bootstrap_device, device_ready,
                    battery_status, app_battery_status, update_age,
                    ret, cands, data, emitted, errors, leaked, last_frame_pct, read_failed >>

-----------------------------------------------------------------------------
(* run() and process_data, run by thread 0 *)

\* lines 147 and 151: self.device_ready.wait()
WaitReady ==
    /\ pc[RunThread] \in {"L147", "L151"}
    /\ device_ready
    /\ Goto(RunThread, IF pc[RunThread] = "L147" THEN "L149" ELSE "L153")
    /\ read_failed' = (IF pc[RunThread] = "L147" THEN read_failed ELSE FALSE)
    /\ UNCHANGED << clientVars, attached, port, devices, bootstrap_device, device_ready,
                    battery_status, app_battery_status, update_age,
                    ret, cands, timer_left, data, emitted, errors, leaked, last_frame_pct, wrote >>

\* lines 149-150: the loop's handle check; with no handle run() calls bootstrap itself
LoopTop ==
    /\ pc[RunThread] = "L149"
    /\ IF bootstrap_device.obj
       THEN /\ Goto(RunThread, "L153")
            /\ read_failed' = FALSE
            /\ UNCHANGED << ret, errors >>
       ELSE /\ IdleTimers # {}
            /\ Goto(RunThread, "L105")
            /\ ret' = "L151"
            /\ errors' = [errors EXCEPT ![RunThread] = FALSE]
            /\ UNCHANGED read_failed
    /\ data' = << >>
    /\ emitted' = << >>
    /\ UNCHANGED << clientVars, attached, port, devices, bootstrap_device, device_ready,
                    battery_status, app_battery_status, update_age,
                    cands, timer_left, leaked, last_frame_pct, wrote >>

\* mutant: line 168 comparing with the value the endpoint serves
ChangedFromServed(previous_battery_status, new_battery_status) ==
    app_battery_status # new_battery_status

\* whether process_data emits 'battery_status': line 168 compares with the value
\* self.battery_status held before line 167
Changed(previous_battery_status, new_battery_status) ==
    previous_battery_status # new_battery_status

\* line 153 returned f; lines 159-168 and 171 of the same iteration
Received(f) ==
    /\ data' = f
    /\ IF f = << >>
       THEN /\ Goto(RunThread, "L149")
            /\ UNCHANGED << battery_status, emitted, last_frame_pct, read_failed, wrote >>
       ELSE IF IndexError(f)
       THEN /\ Goto(RunThread, "raised")
            /\ emitted' = << >>
            /\ UNCHANGED << battery_status, last_frame_pct, read_failed, wrote >>
       ELSE IF ~IsBatteryFrame(f)
       THEN /\ Goto(RunThread, "L149")
            /\ emitted' = << >>
            /\ UNCHANGED << battery_status, last_frame_pct, read_failed, wrote >>
       ELSE /\ battery_status' = BatteryOf(f)
            /\ last_frame_pct' = f[position_battery + 1]
            /\ IF Changed(battery_status, BatteryOf(f))
               THEN /\ emitted' = << BatteryOf(f) >>
                    /\ Goto(RunThread, "L173")
               ELSE /\ emitted' = << >>
                    /\ Goto(RunThread, "L169")

\* line 153: the read returns a report, or nothing (timeout, silent disconnect)
ReadData ==
    /\ pc[RunThread] = "L153"
    /\ bootstrap_device.open
    /\ \E f \in (IF bootstrap_device.live THEN Frames ELSE {}) \cup {<< >>} : Received(f)
    /\ UNCHANGED << clientVars, attached, port, devices, bootstrap_device, device_ready,
                    app_battery_status, update_age,
                    ret, cands, timer_left, errors, leaked, read_failed, wrote >>

\* line 153 raises OSError: the handle is dead, or was never opened
ReadOSError ==
    /\ pc[RunThread] = "L153"
    /\ bootstrap_device.obj
    /\ ~(bootstrap_device.open /\ bootstrap_device.live)
    /\ read_failed' = TRUE
    /\ Goto(RunThread, "L156")
    /\ UNCHANGED << clientVars, attached, port, devices, bootstrap_device, device_ready,
                    battery_status, app_battery_status, update_age,
                    ret, cands, timer_left, data, emitted, errors, leaked, last_frame_pct, wrote >>

\* line 153 raises something `except OSError` does not catch: the field is None
\* by now (AttributeError), or holds a handle that is not open yet; run() ends
ReadRaises ==
    /\ pc[RunThread] = "L153"
    /\ ~bootstrap_device.open
    /\ Goto(RunThread, "raised")
    /\ UNCHANGED << clientVars, attached, port, devices, bootstrap_device, device_ready,
                    battery_status, app_battery_status, update_age,
                    ret, cands, timer_left, data, emitted, errors, leaked, last_frame_pct, read_failed, wrote >>

\* line 156: self.bootstrap_device = None
DropDevice ==
    /\ pc[RunThread] = "L156"
    /\ bootstrap_device' = NoDevice
    /\ leaked' = LeakedAfterDrop
    /\ Goto(RunThread, "L157")
    /\ UNCHANGED << clientVars, attached, port, devices, device_ready,
                    battery_status, app_battery_status, update_age,
                    ret, cands, timer_left, data, emitted, errors, last_frame_pct, read_failed, wrote >>

\* lines 157-158: self.device_ready.clear(); continue
ClearReady ==
    /\ pc[RunThread] = "L157"
    /\ device_ready' = FALSE
    /\ Goto(RunThread, "L149")
    /\ UNCHANGED << clientVars, attached, port, devices, bootstrap_device,
                    battery_status, app_battery_status, update_age,
                    ret, cands, timer_left, data, emitted, errors, leaked, last_frame_pct, read_failed, wrote >>

\* lines 169-170: the same percentage; only the timestamp is refreshed
RefreshTimestamp ==
    /\ pc[RunThread] = "L169"
    /\ update_age' = 0
    /\ data' = << >>
    /\ Goto(RunThread, "L149")
    /\ UNCHANGED << clientVars, attached, port, devices, bootstrap_device, device_ready,
                    battery_status, app_battery_status,
                    ret, cands, timer_left, emitted, errors, leaked, last_frame_pct, read_failed, wrote >>

\* line 173: self.app.battery_status = self.battery_status
PublishStatus ==
    /\ pc[RunThread] = "L173"
    /\ app_battery_status' = battery_status
    /\ data' = << >>
    /\ Goto(RunThread, "L175")
    /\ UNCHANGED << clientVars, attached, port, devices, bootstrap_device, device_ready,
                    battery_status, update_age,
                    ret, cands, timer_left, emitted, errors, leaked, last_frame_pct, read_failed, wrote >>

\* line 175: self.last_battery_update_at = time.time()
StampUpdate ==
    /\ pc[RunThread] = "L175"
    /\ update_age' = 0
    /\ Goto(RunThread, "L149")
    /\ UNCHANGED << clientVars, attached, port, devices, bootstrap_device, device_ready,
                    battery_status, app_battery_status,
                    ret, cands, timer_left, data, emitted, errors, leaked, last_frame_pct, read_failed, wrote >>

-----------------------------------------------------------------------------
(* The environment's own steps *)

\* the dongle is pulled (or the system suspends): an open handle goes dead
Unplug ==
    /\ attached
    /\ attached' = FALSE
    /\ port' = 1
    /\ bootstrap_device' = [bootstrap_device EXCEPT !.live = FALSE]
    /\ UNCHANGED << clientVars, devices, device_ready,
                    battery_status, app_battery_status, update_age,
                    pc, ret, cands, timer_left, data, emitted, errors, leaked, last_frame_pct, read_failed, wrote >>

\* the dongle is plugged into port p; ports are alike until a path has been
\* cached, so the port used before that is port 1
Plug(p) ==
    /\ ~attached
    /\ devices = << >> => p = 1
    /\ attached' = TRUE
    /\ port' = p
    /\ UNCHANGED << clientVars, devices, bootstrap_device, device_ready,
                    battery_status, app_battery_status, update_age,
                    pc, ret, cands, timer_left, data, emitted, errors, leaked, last_frame_pct, read_failed, wrote >>

\* thread 0 is where time passes: blocked in wait() or read(), or gone
Blocked == pc[RunThread] \in {"L147", "L151", "L153", "raised"}

\* time passes while no bootstrap call is running; a timer fires when it is due
Advance ==
    /\ Blocked
    /\ \A t \in TimerThreads :
          \/ pc[t] = "idle"
          \/ pc[t] = "armed" /\ timer_left[t] >= TickLen
    /\ timer_left' = [t \in TimerThreads |->
                        IF pc[t] = "armed" THEN timer_left[t] - TickLen ELSE timer_left[t]]
    /\ update_age' = (IF update_age = None THEN None ELSE Min(update_age + TickLen, AgeCap))
    /\ UNCHANGED << clientVars, attached, port, devices, bootstrap_device, device_ready,
                    battery_status, app_battery_status,
                    pc, ret, cands, data, emitted, errors, leaked, last_frame_pct, read_failed, wrote >>

-----------------------------------------------------------------------------

Next ==
    \/ \E t \in Threads :
          \/ TimerFires(t)
          \/ CheckStale(t)
          \/ InvalidateStatus(t)
          \/ InvalidateReady(t)
          \/ InvalidateDevice(t)
          \/ FindDevices(t)
          \/ NextCandidate(t)
          \/ OpenPathOk(t)
          \/ OpenPathOSError(t)
          \/ OpenPathRaises(t)
          \/ OpenFailed(t)
          \/ CheckFound(t)
          \/ CheckReady(t)
          \/ WriteWakeOk(t)
          \/ WriteWakeOSError(t)
          \/ WriteWakeError(t)
          \/ SetReady(t)
          \/ Rearm(t)
    \/ WaitReady
    \/ LoopTop
    \/ ReadData
    \/ ReadOSError
    \/ ReadRaises
    \/ DropDevice
    \/ ClearReady
    \/ RefreshTimestamp
    \/ PublishStatus
    \/ StampUpdate
    \/ Unplug
    \/ \E p \in Ports : Plug(p)
    \/ Advance

Spec == Init /\ [][Next]_vars

-----------------------------------------------------------------------------
(* show_headset_battery.py: the display client, polling the endpoint *)

\* percentages the monitor can be serving when the client polls
ClientLevels == {0, 10, 15, 16, 45, 85, 100}

monitorVars == << attached, port, devices, bootstrap_device, device_ready,
                  battery_status, update_age,
                  pc, ret, cands, timer_left, data, emitted, errors, leaked,
                  last_frame_pct, read_failed, wrote >>

\* get_battery_level: int() of the answer; 'unknown' raises ValueError, no answer
\* raises ConnectionError, and both give -1
get_battery_level(res) ==
    IF res = Unreachable THEN -1
    ELSE IF res = Unknown THEN -1
    ELSE res

\* mutant: the `0 <` tests of lines 109-110 left out
ShouldBeepAnyPrevious(last, new) ==
    \/ last < new /\ new >= BATTERY_CHARGED_AT
    \/ last > new /\ new <= BATTERY_VERY_LOW_AT

\* lines 109-110: the condition under which MessageBeep is called
ShouldBeep(last, new) ==
    \/ 0 < last /\ last < new /\ new >= BATTERY_CHARGED_AT
    \/ 0 < last /\ last > new /\ new <= BATTERY_VERY_LOW_AT

\* between two polls the monitor publishes a percentage (line 173 of
\* headset_interface.py) or invalidates it (line 107)
Serve(v) ==
    /\ app_battery_status' = v
    /\ v # app_battery_status
    /\ UNCHANGED << monitorVars, clientVars >>

\* line 106: charge_level = get_battery_level(host)
ClientPoll(res) ==
    /\ client_pc = "L106"
    /\ charge_level' = get_battery_level(res)
    /\ beeped' = FALSE
    /\ client_pc' = "L107"
    /\ UNCHANGED << monitorVars, app_battery_status,
                    last_charge_level, icon_visible, icon_title >>

\* lines 107-113: nothing to do for an unchanged level; else beep on the transitions
ClientCompare ==
    /\ client_pc = "L107"
    /\ IF charge_level # last_charge_level
       THEN /\ beeped' = ShouldBeep(last_charge_level, charge_level)
            /\ client_pc' = "L114"
       ELSE /\ beeped' = beeped
            /\ client_pc' = "L116"
    /\ UNCHANGED << monitorVars, app_battery_status,
                    last_charge_level, charge_level, icon_visible, icon_title >>

\* lines 114-115 and update_icon (lines 89-96)
ClientUpdateIcon ==
    /\ client_pc = "L114"
    /\ last_charge_level' = charge_level
    /\ IF charge_level = -1
       THEN /\ icon_visible' = FALSE
            /\ icon_title' = icon_title
       ELSE /\ icon_visible' = TRUE
            /\ icon_title' = charge_level
    /\ client_pc' = "L116"
    /\ UNCHANGED << monitorVars, app_battery_status, charge_level, beeped >>

\* line 116: time.sleep(60), then the next iteration
ClientSleep ==
    /\ client_pc = "L116"
    /\ client_pc' = "L106"
    /\ UNCHANGED << monitorVars, app_battery_status,
                    last_charge_level, charge_level, icon_visible, icon_title, beeped >>

ClientNext ==
    \/ \E v \in ClientLevels \cup {None} : Serve(v)
    \/ \E res \in {ReadStatus, Unreachable} : ClientPoll(res)
    \/ ClientCompare
    \/ ClientUpdateIcon
    \/ ClientSleep

ClientSpec == Init /\ [][ClientNext]_vars

-----------------------------------------------------------------------------
(* Claims *)

\* thread t takes a step
Steps(t) == pc'[t] # pc[t]

\* C1 (staleness): a tick that finds a reading recorded more than invalidate_after
\* (1800) seconds ago clears the served value, then the readiness signal, then
\* the handle, and goes on to discovery; and the endpoint's answer, once
\* 'unknown', stays 'unknown' until process_data publishes a battery frame.
C1_StaleTickInvalidates ==
    [][ /\ \A t \in Threads :
            /\ (pc[t] = "L105" /\ Steps(t)
                  /\ update_age # None /\ update_age > 1800)
                  => pc'[t] = "L107"
            /\ (pc[t] = "L107" /\ Steps(t))
                  => (ReadStatus' = Unknown /\ pc'[t] = "L108")
            /\ (pc[t] = "L108" /\ Steps(t))
                  => (~device_ready' /\ pc'[t] = "L109")
            /\ (pc[t] = "L109" /\ Steps(t))
                  => (~bootstrap_device'.obj /\ pc'[t] = "L111")
            /\ (pc[t] = "L111" /\ Steps(t) /\ ~bootstrap_device.obj)
                  => pc'[t] = "L115"
        /\ (ReadStatus = Unknown /\ ReadStatus' # Unknown)
              => (pc[RunThread] = "L173" /\ Steps(RunThread))
      ]_vars

\* C1 witness: a stale tick has just invalidated: nothing is served, the signal is
\* clear, the handle is gone and the tick is about to search again
C1_Witness ==
    \E t \in TimerThreads :
        /\ pc[t] = "L111"
        /\ update_age > invalidate_after
        /\ app_battery_status = None
        /\ ~device_ready
        /\ ~bootstrap_device.obj

\* C2 (first frame after an invalidation), as claimed: a battery frame read while
\* the served value is invalidated is published and notified, whatever its percentage
C2_FirstFrameAfterInvalidation ==
    [][ ( /\ pc[RunThread] = "L153"
          /\ app_battery_status = None
          /\ Steps(RunThread)
          /\ Len(data') = 20
          /\ data'[4] = 2 )
        => ( /\ emitted' = << data'[8] >>
             /\ pc'[RunThread] = "L173" )
      ]_vars

\* C3 (frame decoding): a 20-byte frame is a battery event iff its byte 3 is 2, the
\* percentage recorded is then its byte 7, and any other frame changes nothing
C3_Decode ==
    [][ ( /\ pc[RunThread] = "L153"
          /\ Steps(RunThread)
          /\ Len(data') = 20 )
        => IF data'[4] = 2
           THEN /\ pc'[RunThread] \in {"L169", "L173"}
                /\ battery_status' = data'[8]
           ELSE /\ pc'[RunThread] = "L149"
                /\ battery_status' = battery_status
                /\ emitted' = << >>
      ]_vars

\* C3 witness: a battery frame whose other bytes are not zero was decoded
C3_Witness ==
    /\ pc[RunThread] = "L173"
    /\ Len(data) = 20
    /\ data[4] = 2 /\ data[3] = 45 /\ data[7] = 45 /\ data[8] = 2
    /\ battery_status = 2

\* C4 (update idempotence): a battery frame is notified iff its percentage differs
\* from the previous battery frame's (or there was none), and processing it always
\* ends with the timestamp refreshed
C4_Idempotence ==
    [][ /\ ( /\ pc[RunThread] = "L153"
             /\ Steps(RunThread)
             /\ Len(data') = 20
             /\ data'[4] = 2 )
           => /\ emitted' = (IF data'[8] # last_frame_pct THEN << data'[8] >> ELSE << >>)
              /\ pc'[RunThread] \in {"L169", "L173"}
        /\ (pc[RunThread] = "L173" /\ Steps(RunThread))
              => (pc'[RunThread] = "L175" /\ emitted' = emitted)
        /\ (pc[RunThread] \in {"L169", "L175"} /\ Steps(RunThread))
              => (update_age' = 0 /\ pc'[RunThread] = "L149" /\ emitted' = emitted)
      ]_vars

\* C4 witness: a second frame with the same percentage, read after time has passed,
\* is not notified and is about to refresh the timestamp
C4_Witness ==
    /\ pc[RunThread] = "L169"
    /\ update_age # None /\ update_age > 0
    /\ emitted = << >>
    /\ data[8] = last_frame_pct

\* C5 (initial reading): until a battery frame has been read the endpoint answers
\* 'unknown' and nothing is notified; when the first battery frame has been
\* processed the endpoint answers its percentage, notified exactly once
C5_InitialReading ==
    [][ /\ (last_frame_pct = None) => (ReadStatus = Unknown /\ emitted = << >>)
        /\ (last_frame_pct' = None) => (ReadStatus' = Unknown /\ emitted' = << >>)
        /\ (update_age = None /\ update_age' # None)
              => /\ last_frame_pct' \in Bytes
                 /\ ReadStatus' = last_frame_pct'
                 /\ emitted' = << last_frame_pct' >>
      ]_vars

\* C5 witness: the first battery frame, 45, is published and notified, its
\* timestamp still to be set
C5_Witness ==
    /\ pc[RunThread] = "L175"
    /\ update_age = None
    /\ ReadStatus = 45
    /\ emitted = << 45 >>

\* the device is attached where the cached candidate list says it is
CachedPathCurrent ==
    /\ attached
    /\ \A i \in 1..Len(devices) : devices[i].path[1] = port

\* C6 (recovery), as claimed: a read failure clears the handle and the signal, and
\* with the device attached where the program looks for it, run() gets back to
\* reading: it does not end on the way
C6_RecoveryResumes ==
    [][ /\ (pc[RunThread] = "L156" /\ Steps(RunThread)) => ~bootstrap_device'.obj
        /\ (pc[RunThread] = "L157" /\ Steps(RunThread)) => ~device_ready'
        /\ (read_failed /\ CachedPathCurrent) => pc'[RunThread] # "raised"
      ]_vars

\* C7 (no failure is fatal), as claimed: run() never ends because of an open, write
\* or read failure or of an interleaving with a tick; if it ended, a frame it was
\* given did it
C7_NeverFatal ==
    pc[RunThread] = "raised" => data # << >>

\* C8 (malformed frames), as claimed: a truncated frame, or one with another type
\* marker, changes nothing and the loop goes on to the next read
C8_MalformedIgnored ==
    [][ ( /\ pc[RunThread] = "L153"
          /\ Steps(RunThread)
          /\ data' # << >>
          /\ \/ Len(data') < 8
             \/ data'[4] # 2 )
        => ( /\ pc'[RunThread] = "L149"
             /\ emitted' = << >>
             /\ UNCHANGED << battery_status, app_battery_status, update_age >> )
      ]_vars

\* C9 (re-arming): a bootstrap call ends only through its finally clause, whatever
\* path it took, and that step starts exactly one timer, due in update_delay (300)
C9_AlwaysRearms ==
    [][ \A t \in Threads :
          (InBootstrap(t) /\ ~InBootstrap(t)')
          => /\ pc[t] \in {"L141", "L141raise"}
             /\ Cardinality(ArmedTimers') = Cardinality(ArmedTimers) + 1
             /\ \E s \in ArmedTimers' \ ArmedTimers :
                   /\ timer_left'[s] = 300
                   /\ \A r \in TimerThreads \ {s} :
                         pc'[r] = pc[r] /\ timer_left'[r] = timer_left[r]
      ]_vars

\* C9 witness: a call that left its try body by an uncaught exception, and a tick
\* that emitted 'error', are both about to re-arm
C9_Witness ==
    /\ pc[RunThread] = "L141raise"
    /\ \E t \in TimerThreads : pc[t] = "L141" /\ errors[t]

\* C10 (one handle), as claimed: at most one handle is opened and not closed
C10_OneHandle ==
    OpenHandles <= 1

\* no bootstrap call is running and run() is blocked in wait() or read()
Quiescent ==
    /\ pc[RunThread] \in {"L147", "L151", "L153"}
    /\ RunningTimers = {}

\* C11 (readiness), as claimed: the readiness signal is set exactly when there is a
\* handle and the wake command was written to it; stated for the states in which no
\* thread is part-way through changing them
C11_ReadyIffWoken ==
    Quiescent => (device_ready <=> (bootstrap_device.obj /\ bootstrap_device.woken))

\* C12 (atomic pair), as claimed: a tick clears the served percentage only while
\* the timestamp is stale, and never between process_data publishing a percentage
\* and writing its timestamp
C12_AtomicPair ==
    [][ \A t \in Threads :
          (pc[t] = "L107" /\ Steps(t))
          => (pc[RunThread] # "L175" /\ update_age # None /\ update_age > 1800)
      ]_vars

\* C13 (wake failure), as claimed: a wake write that fails with an I/O error leaves
\* no handle and the readiness signal clear
C13_WakeFailureDropsHandle ==
    [][ \A t \in Threads :
          (pc[t] = "L133" /\ Steps(t) /\ ~wrote'[t] /\ ~errors'[t])
          => (~bootstrap_device'.obj /\ ~device_ready')
      ]_vars

\* C14 (ready tick): a tick that finds the reading not stale, a handle and the
\* readiness signal set goes to its finally clause without writing the wake
\* command, and none of its steps changes the handle, the signal, the percentage
\* (cached or served) or the timestamp
C14_ReadyTickNoOp ==
    [][ \A t \in Threads :
          LET same == UNCHANGED << bootstrap_device, device_ready, battery_status,
                                   app_battery_status, update_age >>
          IN  /\ (pc[t] = "L105" /\ Steps(t) /\ (update_age = None \/ update_age <= 1800))
                    => (pc'[t] = "L111" /\ same)
              /\ (pc[t] = "L111" /\ Steps(t) /\ bootstrap_device.obj)
                    => (pc'[t] = "L125" /\ same)
              /\ (pc[t] = "L125" /\ Steps(t) /\ bootstrap_device.obj)
                    => (pc'[t] = "L129" /\ same)
              /\ (pc[t] = "L129" /\ Steps(t) /\ device_ready)
                    => (pc'[t] = "L141" /\ same /\ ~wrote'[t])
              /\ (pc[t] = "L141" /\ Steps(t))
                    => (~InBootstrap(t)' /\ same)
      ]_vars

\* C14 witness: a tick that found a live, woken handle, the signal set and a fresh
\* reading is at its finally clause and has written nothing, the read loop reading
C14_Witness ==
    \E t \in TimerThreads :
        /\ pc[t] = "L141"
        /\ ~wrote[t] /\ ~errors[t]
        /\ attached /\ bootstrap_device.live /\ bootstrap_device.woken
        /\ device_ready
        /\ update_age # None /\ update_age <= invalidate_after
        /\ pc[RunThread] = "L153"

\* C15 (fresh enumeration), as claimed: a tick that starts with no handle works on
\* what an enumeration made now returns
C15_FreshEnumeration ==
    [][ \A t \in Threads :
          (pc[t] = "L111" /\ Steps(t) /\ ~bootstrap_device.obj)
          => (pc'[t] = "L115" /\ cands'[t] = Enumerate)
      ]_vars

\* C16 (read only while ready), as claimed: run() goes on to a read only with the
\* readiness signal set
C16_ReadOnlyWhileReady ==
    [][ (pc[RunThread] # "L153" /\ pc'[RunThread] = "L153") => device_ready' ]_vars

\* C17 (single driver), as claimed: at most one timer is armed
C17_SingleDriver ==
    Cardinality(ArmedTimers) <= 1

\* C18 (timeout, other frame): a read that returns nothing, or a report whose byte 3
\* is there and is not 2, changes neither the percentage (cached or served), the
\* timestamp, the handle nor the readiness signal, emits nothing, and the loop goes on
C18_NoSideEffects ==
    [][ ( /\ pc[RunThread] = "L153"
          /\ Steps(RunThread)
          /\ \/ data' = << >> /\ bootstrap_device.open /\ ~read_failed'
             \/ Len(data') >= 4 /\ data'[4] # 2 )
        => ( /\ pc'[RunThread] = "L149"
             /\ emitted' = << >>
             /\ UNCHANGED << battery_status, app_battery_status, update_age,
                             bootstrap_device, device_ready >> )
      ]_vars

\* C18 witness: a report of another type whose byte 7 is 2 was read and skipped; the
\* percentage is still 45 and its timestamp was not refreshed
C18_Witness ==
    /\ pc[RunThread] = "L149"
    /\ Len(data) = 20
    /\ data[4] = 45 /\ data[8] = 2
    /\ battery_status = 45 /\ app_battery_status = 45
    /\ update_age # None /\ update_age > 0
    /\ emitted = << >>

\* C19 (repeated invalidation): no step of bootstrap changes the timestamp and a
\* stale reading stays stale until process_data writes the timestamp; meanwhile
\* every tick invalidates again, and when it has a handle again with the signal
\* clear it writes the wake command again
C19_StaleUntilNextFrame ==
    [][ /\ \A t \in Threads :
            /\ (InBootstrap(t) /\ Steps(t)) => update_age' = update_age
            /\ (pc[t] = "L105" /\ Steps(t) /\ Stale) => pc'[t] = "L107"
            /\ (pc[t] = "L108" /\ Steps(t)) => ~device_ready'
            /\ (pc[t] = "L109" /\ Steps(t)) => ~bootstrap_device'.obj
            /\ (pc[t] = "L129" /\ Steps(t) /\ ~device_ready) => pc'[t] = "L133"
            /\ (pc[t] = "L133" /\ Steps(t) /\ bootstrap_device.open /\ bootstrap_device.live)
                  => (wrote'[t] /\ bootstrap_device'.woken)
        /\ (update_age # None) => (update_age' # None)
        /\ (Stale /\ ~Stale') => (pc[RunThread] \in {"L169", "L175"} /\ Steps(RunThread))
      ]_vars

\* C19 witness: two polling delays into staleness, so not the first stale tick, a
\* tick has invalidated, opened a handle and written the wake command once more
C19_Witness ==
    \E t \in TimerThreads :
        /\ pc[t] = "L135"
        /\ wrote[t]
        /\ update_age = invalidate_after + 2 * update_delay
        /\ app_battery_status = None

\* C20 (low-battery alert): when the polled level has gone from a positive level down
\* to a level of at most 15 the client beeps and the icon then shows the new level;
\* it does not beep when the previous level was unknown (-1) or the level is the
\* same; and after a poll that gave -1 (unknown, unreachable) the icon is hidden
C20_LowBatteryAlert ==
    [][ /\ (client_pc = "L107" /\ client_pc' # "L107")
           => /\ ( /\ last_charge_level > 0
                   /\ charge_level >= 0
                   /\ charge_level < last_charge_level
                   /\ charge_level <= 15 )
                 => (beeped' /\ client_pc' = "L114")
              /\ (last_charge_level = -1 \/ charge_level = last_charge_level)
                 => ~beeped'
        /\ (client_pc = "L114" /\ client_pc' # "L114")
           => /\ last_charge_level' = charge_level
              /\ beeped' = beeped
              /\ charge_level >= 0 => (icon_visible' /\ icon_title' = charge_level)
              /\ charge_level = -1 => ~icon_visible'
        /\ (client_pc = "L116" /\ client_pc' # "L116" /\ charge_level = -1)
           => ~icon_visible
      ]_vars

\* C20 witness: the level fell from 45 to 10 and the client has beeped, the icon
\* still to be updated
C20_Witness ==
    /\ client_pc = "L114"
    /\ last_charge_level = 45
    /\ charge_level = 10
    /\ beeped

====
